---------------------------- MODULE Spec2Model ----------------------------
(***************************************************************************)
(* Parallel flashcard generation of lia-ai-service:                        *)
(*   - the batch planner, the workers and the orchestrator of              *)
(*     src/src/agents/multi_agent_flashcards.py,                           *)
(*   - the ProgressTracker and the caller start_flashcard_generation of    *)
(*     src/src/services/ai_service.py,                                     *)
(*   - the progress stream stream_progress of the same file.               *)
(* Code between two awaits of an asyncio task runs without interleaving,   *)
(* so every action below is one such stretch of code.                      *)
(*                                                                         *)
(* The specifications share the variables:                                 *)
(*   Spec         one call of start_flashcard_generation, end to end;      *)
(*   SpecPlan     _create_batches applied to bounded inputs;               *)
(*   SpecTracker  arbitrary call sequences on one ProgressTracker;         *)
(*   SpecStream   one call and a progress stream on its operation, and     *)
(*                SpecStreamFair, the same under fair scheduling;          *)
(*   SpecCb       one call of Generate with a callback that may raise;     *)
(*   SpecPair     two concurrent calls of start_flashcard_generation;      *)
(*   SpecStreamPair  one call observed by two progress streams;            *)
(*   SpecSem      the semaphore of src/src/services/openai_utils.py.       *)
(***************************************************************************)
EXTENDS Integers, Sequences, FiniteSets, TLC

VARIABLES
    configured,      \* openai_utils.is_openai_configured()
    hasGenerator,    \* ai_service.get_multi_agent_generator() is not None
    max_agents,      \* MultiAgentFlashcardGenerator.max_agents
    pc,              \* where the caller (or the specification) stands
    request_count,   \* request.count / the count argument of Generate
    tracker,         \* the ProgressTracker object of the operation
    progress_store,  \* keys of ai_service.progress_store
    state,           \* MultiAgentFlashcardState of the running Generate
    tasks,           \* position of each worker task, by batch position
    responses,       \* what the provider answered to each worker
    doneOrder,       \* agent ids in the order their tasks finished
    genResult,       \* the dict generate_flashcards_parallel returned
    finalResult,     \* the dict start_flashcard_generation returned
    providerCalls,   \* create_chat_completion calls made by the generator
    cbCalls,         \* progress_callback invocations made by the generator
    lastCall,        \* SpecTracker: the tracker method called last
    streams,         \* the progress streams (generate_progress_events)
    emitted,         \* per agent id: the progress events reported for it
    workerCalls,     \* per batch: the agent that ran it, its provider calls
    singleAgentCalls, \* calls of generate_flashcards_single_agent
    everTerminal,    \* SpecTracker: agents that ever had a terminal status
    statusLog,       \* per batch: the values assigned to batch.status
    ops,             \* SpecPair: the two concurrent operations
    store,           \* SpecPair: progress_store, key to the tracker's owner
    semaphore,       \* SpecSem: openai_utils._semaphore
    apiCalls         \* SpecSem: the callers of create_chat_completion

vars == <<configured, hasGenerator, max_agents, pc, request_count, tracker,
          progress_store, state, tasks, responses, doneOrder, genResult,
          finalResult, providerCalls, cbCalls, lastCall, streams, emitted,
          workerCalls, singleAgentCalls, everTerminal, statusLog, ops, store,
          semaphore, apiCalls>>

(* the variables of SpecPair and of SpecSem, and all the others *)
pairVars == <<ops, store>>
semVars == <<semaphore, apiCalls>>
singleVars == <<configured, hasGenerator, max_agents, pc, request_count,
                tracker, progress_store, state, tasks, responses, doneOrder,
                genResult, finalResult, providerCalls, cbCalls, lastCall,
                streams, emitted, workerCalls, singleAgentCalls, everTerminal,
                statusLog>>

-----------------------------------------------------------------------------
(* Bounds of the model *)

MaxCount == 4          \* largest request.count explored by Spec
MaxItems == 2          \* most flashcards one provider answer holds
MaxProvided == 0       \* most sub-topic labels the decomposer answers with
MaxPlanCount == 12     \* largest total_count explored by SpecPlan
MaxPool == 6           \* largest max_agents explored by SpecPlan
MaxTrackerAgents == 3  \* largest agent id / total explored by SpecTracker
MaxStreamCount == 2    \* largest request.count explored by SpecStream
MaxCbCount == 2        \* largest request.count explored by SpecCb
MaxPairCount == 2      \* largest request.count explored by SpecPair
MaxObservedCount == 1  \* largest request.count explored by SpecStreamPair
MaxLimit == 2          \* largest OPENAI_CONCURRENCY_LIMIT explored by SpecSem
MaxCallers == 3        \* concurrent callers of create_chat_completion

(* Program constants *)

DefaultMaxAgents == 4  \* max_agents=4 passed by get_multi_agent_generator
MaxWait == 30          \* max_wait of generate_progress_events

OpId == "op"           \* the operation_id of the one operation of Spec

Max(a, b) == IF a >= b THEN a ELSE b
Min(a, b) == IF a <= b THEN a ELSE b

Terminal == {"completed", "error"}

-----------------------------------------------------------------------------
(* ProgressTracker (ai_service.py).  agents_status has the keys 1..k for   *)
(* some k, as _ensure_agent_slots only ever fills 1..n, so it is kept as a *)
(* sequence.  completed_at is not kept: it is set exactly when the status  *)
(* is terminal.                                                            *)

WaitingSlot == [status |-> "waiting", subtopic |-> "", progress |-> 0]

EnsureAgentSlots(t, total_agents) ==
    [t EXCEPT !.agents_status =
        IF total_agents > Len(@)
        THEN @ \o [i \in 1..(total_agents - Len(@)) |-> WaitingSlot]
        ELSE @]

NewTracker(total_agents) ==
    EnsureAgentSlots([total_agents    |-> Max(1, total_agents),
                      completed_agents |-> 0,
                      agents_status    |-> << >>],
                     Max(1, total_agents))

SetTotalAgents(t, total_agents) ==
    IF total_agents <= 0 THEN t
    ELSE IF total_agents # t.total_agents
         THEN EnsureAgentSlots([t EXCEPT !.total_agents = total_agents],
                               total_agents)
         ELSE t

(* update_agent_status without its test of previous_status *)
UpdateAgentStatus_NoPreviousCheck(t, agent_id, status, subtopic, progress) ==
    LET t1 == IF agent_id \notin DOMAIN t.agents_status
              THEN EnsureAgentSlots(t, agent_id) ELSE t
        t2 == [t1 EXCEPT !.agents_status[agent_id] =
                  [status |-> status, subtopic |-> subtopic,
                   progress |-> progress]]
    IN  IF status \in Terminal
        THEN [t2 EXCEPT !.completed_agents = Min(t2.total_agents, @ + 1)]
        ELSE t2

(* the counter is written back from a value read before the other tasks   *)
(* reported, as if the update were interleaved with theirs                 *)
UpdateAgentStatus_StaleRead(t, agent_id, status, subtopic, progress) ==
    LET t1 == IF agent_id \notin DOMAIN t.agents_status
              THEN EnsureAgentSlots(t, agent_id) ELSE t
        previous_status == t1.agents_status[agent_id].status
        t2 == [t1 EXCEPT !.agents_status[agent_id] =
                  [status |-> status, subtopic |-> subtopic,
                   progress |-> progress]]
    IN  IF status \in Terminal /\ previous_status \notin Terminal
        THEN [t2 EXCEPT !.completed_agents = Min(t2.total_agents, 0 + 1)]
        ELSE t2

UpdateAgentStatus(t, agent_id, status, subtopic, progress) ==
    LET t1 == IF agent_id \notin DOMAIN t.agents_status
              THEN EnsureAgentSlots(t, agent_id) ELSE t
        previous_status == t1.agents_status[agent_id].status
        t2 == [t1 EXCEPT !.agents_status[agent_id] =
                  [status |-> status, subtopic |-> subtopic,
                   progress |-> progress]]
    IN  IF status \in Terminal /\ previous_status \notin Terminal
        THEN [t2 EXCEPT !.completed_agents = Min(t2.total_agents, @ + 1)]
        ELSE t2

(* handle_progress: every caller passes an integer total_agents *)
HandleProgress(t, agent_id, status, subtopic, progress, total_agents) ==
    UpdateAgentStatus(SetTotalAgents(t, total_agents),
                      agent_id, status, subtopic, progress)

RECURSIVE FinalizeFrom(_, _, _, _, _)
FinalizeFrom(t, agent_index, last, status, progress) ==
    IF agent_index > last THEN t
    ELSE FinalizeFrom(UpdateAgentStatus(t, agent_index, status, "topic", progress),
                      agent_index + 1, last, status, progress)

(* finalize_agents: range(1, tracker.total_agents + 1) is evaluated once *)
FinalizeAgents(t, status, progress) ==
    FinalizeFrom(t, 1, t.total_agents, status, progress)

(* get_progress_data()["status"] *)
OverallStatus(t) ==
    IF t.completed_agents = t.total_agents THEN "completed" ELSE "in_progress"

-----------------------------------------------------------------------------
(* BatchPlanner (multi_agent_flashcards.py) *)

(* _generate_subtopics once the provider answered with a list of           *)
(* `provided` labels: pad with generic labels, cut to `count`.             *)
GenerateSubtopics(provided, count) ==
    [i \in 1..Max(0, count) |-> IF i <= provided THEN "llm" ELSE "part"]

NewBatch(index, subtopic, count) ==
    [batch_id |-> index, subtopic |-> subtopic, count |-> count,
     agent_id |-> index, flashcards |-> << >>, status |-> "pending",
     error_message |-> "None"]

AgentsToUse(maxAgents, total_count) == Max(1, Min(maxAgents, total_count))

(* the remainder is forgotten *)
CountForAgent_NoRemainder(index0, flashcards_per_agent, remaining) ==
    flashcards_per_agent

(* the whole remainder goes to the first batch *)
CountForAgent_RemainderToFirst(index0, flashcards_per_agent, remaining) ==
    flashcards_per_agent + (IF index0 = 0 THEN remaining ELSE 0)

CountForAgent(index0, flashcards_per_agent, remaining) ==
    flashcards_per_agent + (IF index0 < remaining THEN 1 ELSE 0)

CreateBatches(maxAgents, total_count, provided) ==
    LET agents_to_use == AgentsToUse(maxAgents, total_count)
        subtopics == GenerateSubtopics(provided, agents_to_use)
        flashcards_per_agent == Max(1, total_count \div agents_to_use)
        remaining == total_count % agents_to_use
        all == [i \in 1..agents_to_use |->
                   NewBatch(i, subtopics[i],
                            CountForAgent(i - 1, flashcards_per_agent, remaining))]
    IN  SelectSeq(all, LAMBDA b : b.count > 0)

EstimateBatches(maxAgents, requested_count) ==
    IF requested_count <= 0 THEN 1 ELSE Min(maxAgents, requested_count)

-----------------------------------------------------------------------------
(* Worker (FlashcardAgent.generate_flashcards_batch) *)

(* What create_chat_completion gave the worker:                            *)
(*   provider_error  it raised (RuntimeError or any other exception);      *)
(*   bad_json        text that json.loads rejects;                         *)
(*   bad_shape       JSON that is not an object holding a list of objects; *)
(*   json            an object whose "flashcards" holds n objects.         *)
NoAnswer == [kind |-> "none", n |-> 0]

ProviderAnswers ==
    {[kind |-> k, n |-> 0] : k \in {"provider_error", "bad_json", "bad_shape"}}
    \cup {[kind |-> "json", n |-> k] : k \in 0..MaxItems}

FailedAnswer(answer) == answer.kind \in {"provider_error", "bad_json", "bad_shape"}

(* lines 126-130: each item is tagged with its id, batch and agent *)
TagFlashcards(batch, agent_id, n) ==
    [k \in 1..n |-> [id |-> <<batch.batch_id, k>>,
                     batch_id |-> batch.batch_id,
                     agent_id |-> agent_id]]

(* lines 110-157: the batch as the worker leaves it *)
ExecuteBatch(batch, agent_id, answer) ==
    IF answer.kind = "json"
    THEN [batch EXCEPT !.flashcards = TagFlashcards(batch, agent_id, answer.n),
                       !.status = "completed"]
    ELSE [batch EXCEPT !.status = "error",
                       !.error_message = answer.kind]

-----------------------------------------------------------------------------
(* Orchestrator (MultiAgentFlashcardGenerator.generate_flashcards_parallel) *)

NoState ==
    [status |-> "none", total_count |-> 0, batches |-> << >>,
     completed_flashcards |-> << >>, agents_count |-> 1]

NewState(count) ==
    [status |-> "initializing", total_count |-> count, batches |-> << >>,
     completed_flashcards |-> << >>, agents_count |-> 1]

(* The dict Generate returns; a key the dict lacks is -1 or << >> here.    *)
NoResult ==
    [kind |-> "none", success |-> FALSE, flashcards |-> << >>,
     batches_completed |-> -1, batches_failed |-> -1,
     failed_batches |-> -1, details |-> << >>]

Failure(kind) == [NoResult EXCEPT !.kind = kind]

(* count < 0 in place of count <= 0 *)
Admission_ZeroAccepted(isConfigured, count) ==
    IF ~isConfigured THEN "unavailable"
    ELSE IF count < 0 THEN "nonpositive"
    ELSE "accepted"

(* lines 248-258: the checks made before anything else *)
Admission(isConfigured, count) ==
    IF ~isConfigured THEN "unavailable"
    ELSE IF count <= 0 THEN "nonpositive"
    ELSE "accepted"

(* the results in the order the tasks finished, as asyncio.as_completed    *)
(* would give them                                                         *)
GatherResults_ByCompletion(batches, taskStates, order) ==
    [k \in 1..Len(order) |->
        [raised |-> taskStates[order[k]] = "raised", batch |-> batches[order[k]]]]

(* asyncio.gather over the tasks with return_exceptions: the results come *)
(* in the order of the tasks, whatever the order `order` in which the      *)
(* tasks finished; the result of a task that raised is its exception.      *)
GatherResults(batches, taskStates, order) ==
    [i \in 1..Len(batches) |->
        [raised |-> taskStates[i] = "raised", batch |-> batches[i]]]

(* lines 307-330: the loop over zip(state.batches, results) *)
RECURSIVE AggregateFrom(_, _, _, _)
AggregateFrom(batches, results, i, acc) ==
    IF i > Min(Len(batches), Len(results)) THEN acc
    ELSE LET result == results[i] IN
         IF result.raised
         THEN AggregateFrom(batches, results, i + 1,
                  [acc EXCEPT
                      !.completed_batches =
                          Append(@, [batches[i] EXCEPT !.status = "error",
                                                       !.error_message = "task"]),
                      !.faulted = Append(@, batches[i].agent_id)])
         ELSE AggregateFrom(batches, results, i + 1,
                  [acc EXCEPT
                      !.completed_batches = Append(@, result.batch),
                      !.completed_flashcards =
                          IF result.batch.status = "completed"
                          THEN @ \o result.batch.flashcards ELSE @])

(* one failed batch discards the flashcards of all *)
AggregateResults_AllOrNothing(batches, results) ==
    LET full == AggregateFrom(batches, results, 1,
                    [completed_batches |-> << >>, completed_flashcards |-> << >>,
                     faulted |-> << >>])
    IN  IF \E i \in DOMAIN results : results[i].batch.status = "error"
        THEN [full EXCEPT !.completed_flashcards = << >>]
        ELSE full

AggregateResults(batches, results) ==
    AggregateFrom(batches, results, 1,
                  [completed_batches |-> << >>, completed_flashcards |-> << >>,
                   faulted |-> << >>])

SuccessfulBatches(batches) == SelectSeq(batches, LAMBDA b : b.status = "completed")
FailedBatches(batches) == SelectSeq(batches, LAMBDA b : b.status = "error")

(* success decided by the presence of batches, not of flashcards *)
HasFlashcards_AnyBatch(st) == st.batches # << >>

(* line 338: the test that decides between the two results *)
HasFlashcards(st) == st.completed_flashcards # << >>

(* success only when no batch failed *)
ParallelResult_RequireAll(st) ==
    IF st.completed_flashcards # << >>
       /\ \A i \in DOMAIN st.batches : st.batches[i].status # "error"
    THEN [NoResult EXCEPT
             !.kind = "ok", !.success = TRUE,
             !.flashcards = st.completed_flashcards,
             !.batches_completed = Len(st.batches),
             !.batches_failed = 0]
    ELSE [NoResult EXCEPT
             !.kind = "total_failure",
             !.failed_batches =
                 Cardinality({i \in DOMAIN st.batches : st.batches[i].status = "error"})]

(* lines 335-376 *)
ParallelResult(st) ==
    IF HasFlashcards(st)
    THEN [NoResult EXCEPT
             !.kind = "ok", !.success = TRUE,
             !.flashcards = st.completed_flashcards,
             !.batches_completed = Len(SuccessfulBatches(st.batches)),
             !.batches_failed = Len(FailedBatches(st.batches))]
    ELSE [NoResult EXCEPT
             !.kind = "total_failure",
             !.failed_batches = Len(FailedBatches(st.batches)),
             !.details = [i \in 1..Len(FailedBatches(st.batches)) |->
                             FailedBatches(st.batches)[i].error_message]]

-----------------------------------------------------------------------------
(* Spec: one call of start_flashcard_generation *)

NoTracker == [total_agents |-> 0, completed_agents |-> 0, agents_status |-> << >>]

NoFinal == [returned |-> FALSE, success |-> FALSE, via |-> "none",
            flashcards |-> << >>]

(* generate_progress_events before it is started.                         *)
(* last is the type of the event yielded last, the n fields count the     *)
(* events of each type; snapshots are not counted, only noted             *)
NoStream == [pc |-> "closed", wait_count |-> 0, found |-> FALSE,
             last |-> "none", nConnected |-> 0, anySnapshot |-> FALSE,
             nTimeout |-> 0, nTerminal |-> 0, nError |-> 0]

StreamIds == {"s1"}

NoEvents == [a \in 1..DefaultMaxAgents |-> << >>]

(* openai_utils.py:18: no semaphore before the module is configured *)
NoSemaphore == [limit |-> 0, value |-> 0]

NoCall == [op |-> "none", arg |-> 0, status |-> "none", previous |-> "none"]

(* ai_service.py:48 and openai_utils.py:12-23: the generator exists       *)
(* whenever OPENAI_API_KEY is not empty, the client only for a real key.   *)
Environments == {<<FALSE, FALSE>>, <<TRUE, FALSE>>, <<TRUE, TRUE>>}

RequestCounts == {-1} \cup 0..MaxCount

FallbackOutcomes == {"success", "failure", "raise"}

Init ==
    /\ \E env \in Environments : hasGenerator = env[1] /\ configured = env[2]
    /\ max_agents = DefaultMaxAgents
    /\ pc = "idle"
    /\ request_count = 0
    /\ tracker = NoTracker
    /\ progress_store = {}
    /\ state = NoState
    /\ tasks = << >>
    /\ responses = << >>
    /\ doneOrder = << >>
    /\ genResult = NoResult
    /\ finalResult = NoFinal
    /\ providerCalls = 0
    /\ cbCalls = 0
    /\ lastCall = NoCall
    /\ streams = [s \in StreamIds |-> NoStream]
    /\ emitted = NoEvents
    /\ workerCalls = << >>
    /\ singleAgentCalls = 0
    /\ everTerminal = {}
    /\ statusLog = << >>
    /\ ops = << >>
    /\ store = << >>
    /\ semaphore = NoSemaphore
    /\ apiCalls = << >>

(* the fallback is never tried *)
NeedsFallback_Never(r) == FALSE

(* ai_service.py:440: the test on the result of Generate *)
NeedsFallback(r) == ~r.success

(* ai_service.py:440-458: the caller takes the result of Generate and, on  *)
(* a failure, marks every agent "processing" and calls the single-agent    *)
(* fallback                                                                *)
ParallelReturned(r, t) ==
    /\ genResult' = r
    /\ IF ~NeedsFallback(r)
       THEN /\ tracker' = t
            /\ pc' = "done"
            /\ finalResult' = [returned |-> TRUE, success |-> TRUE,
                               via |-> "parallel", flashcards |-> r.flashcards]
            /\ UNCHANGED singleAgentCalls
       ELSE /\ tracker' = FinalizeAgents(t, "processing", 10)
            /\ pc' = "fallback"
            /\ finalResult' = finalResult
            /\ singleAgentCalls' = singleAgentCalls + 1

(* ai_service.py:398-431 and multi_agent_flashcards.py:248-275, up to the  *)
(* first suspension                                                        *)
StartGeneration(count) ==
    /\ pc = "idle"
    /\ request_count' = count
    /\ progress_store' = progress_store \cup {OpId}
    /\ LET t0 == NewTracker(IF hasGenerator
                            THEN EstimateBatches(max_agents, count) ELSE 1)
           verdict == Admission(configured, count)
       IN  IF ~hasGenerator
           THEN /\ tracker' = HandleProgress(t0, 1, "processing", "topic", 10, 1)
                /\ pc' = "single_agent"
                /\ singleAgentCalls' = singleAgentCalls + 1
                /\ UNCHANGED <<state, genResult, finalResult, providerCalls>>
           ELSE IF verdict # "accepted"
           THEN /\ ParallelReturned(Failure(verdict), t0)
                /\ UNCHANGED <<state, providerCalls>>
           ELSE /\ state' = NewState(count)
                /\ tracker' = t0
                /\ pc' = "create_batches"
                /\ providerCalls' = providerCalls + 1
                /\ UNCHANGED <<genResult, finalResult, singleAgentCalls>>
    /\ UNCHANGED <<pairVars, semVars, statusLog,
                   configured, hasGenerator, max_agents, tasks, responses,
                   doneOrder, cbCalls, lastCall,
                   streams, emitted, workerCalls, everTerminal>>

(* _generate_subtopics lets a fault escape when the provider's JSON is not *)
(* a list (lines 200-202 are outside its try); Generate catches it at      *)
(* lines 384-391                                                           *)
PlanFault ==
    /\ pc = "create_batches"
    /\ ParallelReturned(Failure("critical"), tracker)
    /\ UNCHANGED <<pairVars, semVars, statusLog,
                   configured, hasGenerator, max_agents, request_count,
                   progress_store, state, tasks, responses, doneOrder,
                   providerCalls, cbCalls, lastCall,
                   streams, emitted, workerCalls, everTerminal>>

(* one call of progress_callback(agent_id, status, subtopic, progress,     *)
(* total_batches), as the log of the events reported for the agent         *)
Emit(log, agent_id, status, progress) ==
    [log EXCEPT ![agent_id] =
        Append(@, [status |-> status, progress |-> progress])]

RECURSIVE EmitAll(_, _, _, _)
EmitAll(log, agent_ids, status, progress) ==
    IF agent_ids = << >> THEN log
    ELSE EmitAll(Emit(log, Head(agent_ids), status, progress),
                 Tail(agent_ids), status, progress)

(* the batches are not announced *)
QueuedEvents_Skipped(log, batches) == log

(* lines 283-292: every planned batch is announced as queued *)
QueuedEvents(log, batches) ==
    EmitAll(log, [i \in DOMAIN batches |-> batches[i].agent_id], "queued", 0)

(* line 168: the agents of the generator, agent k with agent_id k *)
Agents(maxAgents) == [k \in 1..maxAgents |-> k]

(* every batch goes to the first agent *)
AgentFor_First(agents, batch) == agents[1]

(* line 296: self.agents[batch.agent_id - 1], the list counted from 0 *)
AgentFor(agents, batch) == agents[(batch.agent_id - 1) + 1]

RECURSIVE NotifyQueued(_, _, _)
NotifyQueued(t, batches, i) ==
    IF i > Len(batches) THEN t
    ELSE NotifyQueued(HandleProgress(t, batches[i].agent_id, "queued",
                                     batches[i].subtopic, 0, Len(batches)),
                      batches, i + 1)

(* lines 275-305: the batches are planned, announced as queued and one     *)
(* task per batch is created; the provider answered the decomposition with *)
(* `provided` labels (none when that call failed)                          *)
PlanBatches(provided) ==
    /\ pc = "create_batches"
    /\ LET batches == CreateBatches(max_agents, state.total_count, provided)
           st == [state EXCEPT
                     !.batches = batches,
                     !.agents_count = AgentsToUse(max_agents, state.total_count)]
       IN  /\ state' = st
           /\ IF batches = << >>
              THEN /\ ParallelReturned(Failure("noplan"), tracker)
                   /\ UNCHANGED <<tasks, responses, cbCalls, emitted,
                                  workerCalls, statusLog>>
              ELSE /\ tracker' = NotifyQueued(tracker, batches, 1)
                   /\ emitted' = QueuedEvents(emitted, batches)
                   /\ cbCalls' = cbCalls + Len(batches)
                   /\ tasks' = [i \in 1..Len(batches) |-> "created"]
                   /\ responses' = [i \in 1..Len(batches) |-> NoAnswer]
                   /\ workerCalls' = [i \in 1..Len(batches) |->
                                         [agent |-> 0, calls |-> 0]]
                   /\ statusLog' = [i \in 1..Len(batches) |->
                                       <<batches[i].status>>]
                   /\ pc' = "gather"
                   /\ UNCHANGED <<genResult, finalResult, singleAgentCalls>>
    /\ UNCHANGED <<pairVars, semVars,
                   configured, hasGenerator, max_agents, request_count,
                   progress_store, doneOrder, providerCalls, lastCall,
                   streams, everTerminal>>

(* lines 69-111: a task starts, its agent reports "processing" and calls   *)
(* the provider                                                            *)
WorkerStart(i) ==
    /\ pc = "gather"
    /\ i \in DOMAIN tasks
    /\ tasks[i] = "created"
    /\ LET batch == state.batches[i]
           agent_id == AgentFor(Agents(max_agents), batch)
       IN  /\ tracker' = HandleProgress(tracker, agent_id, "processing",
                                        batch.subtopic, 5, Len(state.batches))
           /\ emitted' = Emit(emitted, agent_id, "processing", 5)
           /\ workerCalls' = [workerCalls EXCEPT ![i] =
                                 [agent |-> agent_id, calls |-> @.calls + 1]]
    /\ cbCalls' = cbCalls + 1
    /\ providerCalls' = providerCalls + 1
    /\ tasks' = [tasks EXCEPT ![i] = "awaiting"]
    /\ UNCHANGED <<pairVars, semVars, statusLog,
                   configured, hasGenerator, max_agents, pc, request_count,
                   progress_store, state, responses, doneOrder, genResult,
                   finalResult, lastCall,
                   streams, singleAgentCalls, everTerminal>>

(* lines 116-157: the provider call ends, the batch gets its outcome and   *)
(* the terminal status is reported                                         *)
WorkerFinish(i, answer) ==
    /\ pc = "gather"
    /\ i \in DOMAIN tasks
    /\ tasks[i] = "awaiting"
    /\ LET batch == state.batches[i]
           agent_id == AgentFor(Agents(max_agents), batch)
           done == ExecuteBatch(batch, agent_id, answer)
       IN  /\ state' = [state EXCEPT !.batches[i] = done]
           /\ tracker' = HandleProgress(tracker, agent_id, done.status,
                                        batch.subtopic, 100, Len(state.batches))
           /\ emitted' = Emit(emitted, agent_id, done.status, 100)
           /\ statusLog' = [statusLog EXCEPT ![i] = Append(@, done.status)]
           /\ doneOrder' = Append(doneOrder, batch.agent_id)
    /\ cbCalls' = cbCalls + 1
    /\ responses' = [responses EXCEPT ![i] = answer]
    /\ tasks' = [tasks EXCEPT ![i] = "done"]
    /\ UNCHANGED <<pairVars, semVars,
                   configured, hasGenerator, max_agents, pc, request_count,
                   progress_store, genResult, finalResult, providerCalls,
                   lastCall,
                   streams, workerCalls, singleAgentCalls, everTerminal>>

(* line 310: the loop assigns "error" to the batch of every task whose    *)
(* result is an exception                                                  *)
LoopAssignments(log, results) ==
    [i \in DOMAIN log |->
        IF results[i].raised THEN Append(log[i], "error") ELSE log[i]]

RECURSIVE NotifyFaulted(_, _, _, _)
NotifyFaulted(t, faulted, total_batches, i) ==
    IF i > Len(faulted) THEN t
    ELSE NotifyFaulted(HandleProgress(t, faulted[i], "error", "topic", 100,
                                      total_batches),
                       faulted, total_batches, i + 1)

(* lines 305-376, then ai_service.py:440-458: gather returns, the results  *)
(* are aggregated and the result goes back to the caller                   *)
Aggregate ==
    /\ pc = "gather"
    /\ \A i \in DOMAIN tasks : tasks[i] \in {"done", "raised"}
    /\ LET results == GatherResults(state.batches, tasks, doneOrder)
           agg == AggregateResults(state.batches, results)
           st == [state EXCEPT
                     !.batches = agg.completed_batches,
                     !.completed_flashcards = agg.completed_flashcards]
           final == [st EXCEPT !.status = IF HasFlashcards(st)
                                          THEN "completed" ELSE "error"]
       IN  /\ state' = final
           /\ statusLog' = LoopAssignments(statusLog, results)
           /\ cbCalls' = cbCalls + Len(agg.faulted)
           /\ emitted' = EmitAll(emitted, agg.faulted, "error", 100)
           /\ ParallelReturned(ParallelResult(final),
                               NotifyFaulted(tracker, agg.faulted,
                                             Len(state.batches), 1))
    /\ UNCHANGED <<pairVars, semVars,
                   configured, hasGenerator, max_agents, request_count,
                   progress_store, tasks, responses, doneOrder, providerCalls,
                   lastCall,
                   streams, workerCalls, everTerminal>>

(* ai_service.py:459-471: the single-agent fallback ends *)
FallbackReturn(outcome) ==
    /\ pc = "fallback"
    /\ tracker' = FinalizeAgents(tracker,
                                 IF outcome = "success" THEN "completed" ELSE "error",
                                 100)
    /\ finalResult' = [returned |-> TRUE, success |-> (outcome = "success"),
                       via |-> IF outcome = "raise" THEN "exception" ELSE "fallback",
                       flashcards |-> << >>]
    /\ pc' = "done"
    /\ UNCHANGED <<pairVars, semVars, statusLog,
                   configured, hasGenerator, max_agents, request_count,
                   progress_store, state, tasks, responses, doneOrder,
                   genResult, providerCalls, cbCalls, lastCall,
                   streams, emitted, workerCalls, singleAgentCalls,
                   everTerminal>>

(* ai_service.py:424-428: without a generator the single agent is the      *)
(* only path, and a fault of it leaves start_flashcard_generation          *)
SingleAgentReturn(outcome) ==
    /\ pc = "single_agent"
    /\ IF outcome = "raise"
       THEN /\ pc' = "raised"
            /\ UNCHANGED <<tracker, finalResult>>
       ELSE /\ tracker' = FinalizeAgents(tracker,
                                         IF outcome = "success"
                                         THEN "completed" ELSE "error", 100)
            /\ finalResult' = [returned |-> TRUE,
                               success |-> (outcome = "success"),
                               via |-> "single", flashcards |-> << >>]
            /\ pc' = "done"
    /\ UNCHANGED <<pairVars, semVars, statusLog,
                   configured, hasGenerator, max_agents, request_count,
                   progress_store, state, tasks, responses, doneOrder,
                   genResult, providerCalls, cbCalls, lastCall,
                   streams, emitted, workerCalls, singleAgentCalls,
                   everTerminal>>

Next ==
    \/ \E count \in RequestCounts : StartGeneration(count)
    \/ PlanFault
    \/ \E provided \in 0..MaxProvided : PlanBatches(provided)
    \/ \E i \in 1..DefaultMaxAgents : WorkerStart(i)
    \/ \E i \in 1..DefaultMaxAgents : \E answer \in ProviderAnswers :
           WorkerFinish(i, answer)
    \/ Aggregate
    \/ \E outcome \in FallbackOutcomes : FallbackReturn(outcome)
    \/ \E outcome \in FallbackOutcomes : SingleAgentReturn(outcome)

Spec == Init /\ [][Next]_vars

-----------------------------------------------------------------------------
(* ProgressStream (stream_progress.generate_progress_events).  A yield is  *)
(* a suspension point: the code after it runs when the response asks for   *)
(* the next event.                                                         *)

(* json.dumps(tracker.get_progress_data()) raises TypeError when some      *)
(* record of agents_status holds a datetime in completed_at, which         *)
(* update_agent_status stores exactly with a terminal status               *)
Serializable(t) ==
    \A i \in DOMAIN t.agents_status : t.agents_status[i].status \notin Terminal

(* line 854: the except clause yields one error event and the generator    *)
(* ends                                                                    *)
YieldError(st) ==
    [st EXCEPT !.pc = "ended", !.last = "error", !.nError = @ + 1,
               !.wait_count = 0]

(* the return after the timeout event is missing: the lookup of the        *)
(* absent key faults and the except clause yields an error event           *)
YieldTimeout_NoReturn(st) ==
    [st EXCEPT !.pc = "ended", !.last = "error", !.nTimeout = @ + 1,
               !.nError = @ + 1]

(* lines 838-840 *)
YieldTimeout(st) ==
    [st EXCEPT !.pc = "ended", !.last = "timeout", !.nTimeout = @ + 1]

(* lines 843 and 847-849: the loop test and, when the loop is over, the    *)
(* final snapshot tagged "completed"                                       *)
StreamAfterCheck(st, t) ==
    IF t.completed_agents < t.total_agents
    THEN [st EXCEPT !.pc = "sleeping"]
    ELSE IF Serializable(t)
         THEN [st EXCEPT !.pc = "final_yielded", !.last = "completed",
                         !.nTerminal = @ + 1]
         ELSE YieldError(st)

(* line 830 *)
StreamConnect(s) ==
    /\ streams[s].pc = "closed"
    /\ streams' = [streams EXCEPT ![s] =
                      [@ EXCEPT !.pc = "connected", !.last = "connected",
                                !.nConnected = @ + 1]]
    /\ UNCHANGED <<pairVars, semVars, statusLog,
                   configured, hasGenerator, max_agents, pc, request_count,
                   tracker, progress_store, state, tasks, responses, doneOrder,
                   genResult, finalResult, providerCalls, cbCalls, lastCall,
                   emitted, workerCalls, singleAgentCalls, everTerminal>>

(* line 836: a stream that wakes from the sleep of the wait loop has       *)
(* waited one more second                                                  *)
WaitCount(st) ==
    IF st.pc = "waiting" THEN st.wait_count + 1 ELSE st.wait_count

(* lines 834-836: the loop test holds, the stream sleeps for a second *)
StreamWaitTick(s) ==
    /\ streams[s].pc \in {"connected", "waiting"}
    /\ OpId \notin progress_store
    /\ WaitCount(streams[s]) < MaxWait
    /\ streams' = [streams EXCEPT ![s] =
                      [@ EXCEPT !.pc = "waiting",
                                !.wait_count = WaitCount(streams[s])]]
    /\ UNCHANGED <<pairVars, semVars, statusLog,
                   configured, hasGenerator, max_agents, pc, request_count,
                   tracker, progress_store, state, tasks, responses, doneOrder,
                   genResult, finalResult, providerCalls, cbCalls, lastCall,
                   emitted, workerCalls, singleAgentCalls, everTerminal>>

(* lines 834-843: the loop test fails, by the operation being there or by  *)
(* max_wait.  wait_count is not read again once the operation is found,    *)
(* the model forgets it.                                                   *)
StreamWaitOver(s) ==
    /\ streams[s].pc \in {"connected", "waiting"}
    /\ ~(OpId \notin progress_store /\ WaitCount(streams[s]) < MaxWait)
    /\ streams' = [streams EXCEPT ![s] =
                      IF OpId \notin progress_store
                      THEN YieldTimeout([@ EXCEPT !.wait_count =
                                                      WaitCount(streams[s])])
                      ELSE StreamAfterCheck([@ EXCEPT !.found = TRUE,
                                                      !.wait_count = 0],
                                            tracker)]
    /\ UNCHANGED <<pairVars, semVars, statusLog,
                   configured, hasGenerator, max_agents, pc, request_count,
                   tracker, progress_store, state, tasks, responses, doneOrder,
                   genResult, finalResult, providerCalls, cbCalls, lastCall,
                   emitted, workerCalls, singleAgentCalls, everTerminal>>

(* lines 844-845: the sleep ends and a snapshot is serialized and yielded *)
StreamPoll(s) ==
    /\ streams[s].pc = "sleeping"
    /\ streams' = [streams EXCEPT ![s] =
                      IF Serializable(tracker)
                      THEN [@ EXCEPT !.pc = "yielded", !.last = "snapshot",
                                     !.anySnapshot = TRUE]
                      ELSE YieldError(@)]
    /\ UNCHANGED <<pairVars, semVars, statusLog,
                   configured, hasGenerator, max_agents, pc, request_count,
                   tracker, progress_store, state, tasks, responses, doneOrder,
                   genResult, finalResult, providerCalls, cbCalls, lastCall,
                   emitted, workerCalls, singleAgentCalls, everTerminal>>

(* line 843 again, after the snapshot was taken by the response *)
StreamResume(s) ==
    /\ streams[s].pc = "yielded"
    /\ streams' = [streams EXCEPT ![s] = StreamAfterCheck(@, tracker)]
    /\ UNCHANGED <<pairVars, semVars, statusLog,
                   configured, hasGenerator, max_agents, pc, request_count,
                   tracker, progress_store, state, tasks, responses, doneOrder,
                   genResult, finalResult, providerCalls, cbCalls, lastCall,
                   emitted, workerCalls, singleAgentCalls, everTerminal>>

(* lines 850-851: after the final snapshot the entry is deleted *)
StreamRelease(s) ==
    /\ streams[s].pc = "final_yielded"
    /\ streams' = [streams EXCEPT ![s].pc = "ended"]
    /\ progress_store' = progress_store \ {OpId}
    /\ UNCHANGED <<pairVars, semVars, statusLog,
                   configured, hasGenerator, max_agents, pc, request_count,
                   tracker, state, tasks, responses, doneOrder,
                   genResult, finalResult, providerCalls, cbCalls, lastCall,
                   emitted, workerCalls, singleAgentCalls, everTerminal>>

StreamStep(s) ==
    \/ StreamWaitTick(s)
    \/ StreamWaitOver(s)
    \/ StreamPoll(s)
    \/ StreamResume(s)
    \/ StreamRelease(s)

StreamCounts == 0..MaxStreamCount

(* one step of the operation: everything of Next but the choice of count *)
OperationStep ==
    \/ PlanFault
    \/ \E provided \in 0..MaxProvided : PlanBatches(provided)
    \/ \E i \in 1..DefaultMaxAgents : WorkerStart(i)
    \/ \E i \in 1..DefaultMaxAgents : \E answer \in ProviderAnswers :
           WorkerFinish(i, answer)
    \/ Aggregate
    \/ \E outcome \in FallbackOutcomes : FallbackReturn(outcome)
    \/ \E outcome \in FallbackOutcomes : SingleAgentReturn(outcome)

NextStream ==
    \/ \E count \in StreamCounts : StartGeneration(count)
    \/ OperationStep
    \/ \E s \in StreamIds : StreamConnect(s)
    \/ \E s \in StreamIds : StreamStep(s)

(* SpecStream: one operation and the streams that observe it *)
SpecStream == Init /\ [][NextStream]_vars

(* The event loop runs every task that can run and the response keeps      *)
(* asking an open stream for its next event; whether a request or a        *)
(* stream is ever opened is up to the clients.                             *)
SpecStreamFair ==
    /\ SpecStream
    /\ WF_vars(OperationStep)
    /\ \A s \in StreamIds : WF_vars(StreamStep(s))

-----------------------------------------------------------------------------
(* SpecCb: generate_flashcards_parallel with a progress_callback that may  *)
(* raise.  A call of the callback that raises leaves the tracker as it is. *)

(* lines 283-292: the callback raises in the queued loop, at its first     *)
(* call; the except clause at 384-391 makes the result                     *)
PlanBatchesFault(provided) ==
    /\ pc = "create_batches"
    /\ LET batches == CreateBatches(max_agents, state.total_count, provided) IN
       /\ batches # << >>
       /\ state' = [state EXCEPT
                       !.batches = batches,
                       !.agents_count = AgentsToUse(max_agents, state.total_count)]
       /\ statusLog' = [i \in 1..Len(batches) |-> <<batches[i].status>>]
    /\ cbCalls' = cbCalls + 1
    /\ ParallelReturned(Failure("critical"), tracker)
    /\ UNCHANGED <<pairVars, semVars,
                   configured, hasGenerator, max_agents, request_count,
                   progress_store, tasks, responses, doneOrder, providerCalls,
                   lastCall, streams, emitted, workerCalls, everTerminal>>

(* line 79: emit("processing", 5) is outside the try, a callback that      *)
(* raises there ends the task with that exception                          *)
WorkerStartFault(i) ==
    /\ pc = "gather"
    /\ i \in DOMAIN tasks
    /\ tasks[i] = "created"
    /\ cbCalls' = cbCalls + 1
    /\ workerCalls' = [workerCalls EXCEPT ![i] =
                          [agent |-> AgentFor(Agents(max_agents), state.batches[i]),
                           calls |-> @.calls]]
    /\ doneOrder' = Append(doneOrder, state.batches[i].agent_id)
    /\ tasks' = [tasks EXCEPT ![i] = "raised"]
    /\ UNCHANGED <<pairVars, semVars, statusLog,
                   configured, hasGenerator, max_agents, pc, request_count,
                   tracker, progress_store, state, responses, genResult,
                   finalResult, providerCalls, lastCall, streams, emitted,
                   singleAgentCalls, everTerminal>>

(* lines 132-155: the emit of the terminal status raises.  With a parsed   *)
(* answer it is emit("completed", 100) inside the try: an except clause    *)
(* sets the batch to error and calls emit("error", 100), which raises      *)
(* `again` or not.  With a failed answer it is the emit("error", 100) of   *)
(* the except clause, whose exception leaves the task.                     *)
WorkerFinishFault(i, answer, again) ==
    /\ pc = "gather"
    /\ i \in DOMAIN tasks
    /\ tasks[i] = "awaiting"
    /\ FailedAnswer(answer) => again
    /\ LET batch == state.batches[i]
           agent_id == AgentFor(Agents(max_agents), batch)
           done == [ExecuteBatch(batch, agent_id, answer) EXCEPT
                       !.status = "error",
                       !.error_message = IF FailedAnswer(answer)
                                         THEN answer.kind ELSE "callback"]
       IN  /\ state' = [state EXCEPT !.batches[i] = done]
           /\ IF again
              THEN /\ tasks' = [tasks EXCEPT ![i] = "raised"]
                   /\ cbCalls' = cbCalls + (IF FailedAnswer(answer) THEN 1 ELSE 2)
                   /\ UNCHANGED <<tracker, emitted>>
              ELSE /\ tasks' = [tasks EXCEPT ![i] = "done"]
                   /\ cbCalls' = cbCalls + 2
                   /\ tracker' = HandleProgress(tracker, agent_id, "error",
                                                batch.subtopic, 100,
                                                Len(state.batches))
                   /\ emitted' = Emit(emitted, agent_id, "error", 100)
           /\ statusLog' = [statusLog EXCEPT ![i] =
                               IF FailedAnswer(answer)
                               THEN Append(@, "error")
                               ELSE @ \o <<"completed", "error">>]
           /\ doneOrder' = Append(doneOrder, batch.agent_id)
    /\ responses' = [responses EXCEPT ![i] = answer]
    /\ UNCHANGED <<pairVars, semVars,
                   configured, hasGenerator, max_agents, pc, request_count,
                   progress_store, genResult, finalResult, providerCalls,
                   lastCall, streams, workerCalls, singleAgentCalls,
                   everTerminal>>

(* lines 307-326 and 384-391: gather returned the exception of a task, the *)
(* loop sets that batch to error and calls the callback, which raises; the *)
(* except clause of Generate makes the result                              *)
AggregateFault ==
    /\ pc = "gather"
    /\ \A i \in DOMAIN tasks : tasks[i] \in {"done", "raised"}
    /\ \E i \in DOMAIN tasks : tasks[i] = "raised"
    /\ LET first == CHOOSE i \in DOMAIN tasks :
                        /\ tasks[i] = "raised"
                        /\ \A j \in 1..(i - 1) : tasks[j] # "raised"
       IN  /\ state' = [state EXCEPT !.batches[first].status = "error",
                                     !.batches[first].error_message = "task"]
           /\ statusLog' = [statusLog EXCEPT ![first] = Append(@, "error")]
    /\ cbCalls' = cbCalls + 1
    /\ ParallelReturned(Failure("critical"), tracker)
    /\ UNCHANGED <<pairVars, semVars,
                   configured, hasGenerator, max_agents, request_count,
                   progress_store, tasks, responses, doneOrder, providerCalls,
                   lastCall, streams, emitted, workerCalls, everTerminal>>

CbCounts == 0..MaxCbCount

NextCb ==
    \/ \E count \in CbCounts : StartGeneration(count)
    \/ OperationStep
    \/ \E provided \in 0..MaxProvided : PlanBatchesFault(provided)
    \/ \E i \in 1..DefaultMaxAgents : WorkerStartFault(i)
    \/ \E i \in 1..DefaultMaxAgents : \E answer \in ProviderAnswers :
           \E again \in BOOLEAN : WorkerFinishFault(i, answer, again)
    \/ AggregateFault

SpecCb == Init /\ [][NextCb]_vars

-----------------------------------------------------------------------------
(* SpecPair: two calls of start_flashcard_generation in one process, with  *)
(* the provider configured.  Each call has its own tracker and state (the  *)
(* locals of ai_service.py:405 and multi_agent_flashcards.py:260); the     *)
(* calls share progress_store and the generator with its agents, which     *)
(* hold nothing but their agent_id.                                        *)

Ops == {"a", "b"}

NoOp == [pc |-> "idle", count |-> 0, tracker |-> NoTracker,
         batches |-> << >>, tasks |-> << >>, responses |-> << >>,
         result |-> NoResult, final |-> NoFinal]

(* both calls get the same operation id *)
OperationKey_Same(o) == "a"

(* ai_service.py:399: the operation id is drawn with uuid4 for each call; *)
(* two calls get different ids                                            *)
OperationKey(o) == o

(* ai_service.py:82: progress_store[operation_id] = self *)
PutEntry(st, key, owner) ==
    [k \in DOMAIN st \cup {key} |-> IF k = key THEN owner ELSE st[k]]

PairAnswers == {[kind |-> "provider_error", n |-> 0], [kind |-> "json", n |-> 1]}

(* ai_service.py:398-431 and multi_agent_flashcards.py:248-275 *)
PairStart(o, count) ==
    /\ ops[o].pc = "idle"
    /\ Admission(configured, count) = "accepted"
    /\ ops' = [ops EXCEPT ![o] =
                  [@ EXCEPT !.pc = "create_batches", !.count = count,
                            !.tracker = NewTracker(EstimateBatches(max_agents,
                                                                   count))]]
    /\ store' = PutEntry(store, OperationKey(o), o)
    /\ UNCHANGED <<singleVars, semVars>>

(* multi_agent_flashcards.py:275-305 *)
PairPlan(o) ==
    /\ ops[o].pc = "create_batches"
    /\ LET batches == CreateBatches(max_agents, ops[o].count, 0) IN
       ops' = [ops EXCEPT ![o] =
                  [@ EXCEPT !.pc = "gather", !.batches = batches,
                            !.tracker = NotifyQueued(@, batches, 1),
                            !.tasks = [i \in 1..Len(batches) |-> "created"],
                            !.responses = [i \in 1..Len(batches) |-> NoAnswer]]]
    /\ UNCHANGED <<store, singleVars, semVars>>

(* multi_agent_flashcards.py:69-111 *)
PairWorkerStart(o, i) ==
    /\ ops[o].pc = "gather"
    /\ i \in DOMAIN ops[o].tasks
    /\ ops[o].tasks[i] = "created"
    /\ LET batch == ops[o].batches[i]
           agent_id == AgentFor(Agents(max_agents), batch)
       IN  ops' = [ops EXCEPT ![o] =
                      [@ EXCEPT !.tasks[i] = "awaiting",
                                !.tracker = HandleProgress(@, agent_id,
                                                "processing", batch.subtopic, 5,
                                                Len(ops[o].batches))]]
    /\ UNCHANGED <<store, singleVars, semVars>>

(* multi_agent_flashcards.py:116-157 *)
PairWorkerFinish(o, i, answer) ==
    /\ ops[o].pc = "gather"
    /\ i \in DOMAIN ops[o].tasks
    /\ ops[o].tasks[i] = "awaiting"
    /\ LET batch == ops[o].batches[i]
           agent_id == AgentFor(Agents(max_agents), batch)
           done == ExecuteBatch(batch, agent_id, answer)
       IN  ops' = [ops EXCEPT ![o] =
                      [@ EXCEPT !.tasks[i] = "done",
                                !.batches[i] = done,
                                !.responses[i] = answer,
                                !.tracker = HandleProgress(@, agent_id,
                                                done.status, batch.subtopic, 100,
                                                Len(ops[o].batches))]]
    /\ UNCHANGED <<store, singleVars, semVars>>

(* multi_agent_flashcards.py:305-376 and ai_service.py:440-457 *)
PairAggregate(o) ==
    /\ ops[o].pc = "gather"
    /\ \A i \in DOMAIN ops[o].tasks : ops[o].tasks[i] = "done"
    /\ LET results == GatherResults(ops[o].batches, ops[o].tasks, << >>)
           agg == AggregateResults(ops[o].batches, results)
           st == [NewState(ops[o].count) EXCEPT
                     !.batches = agg.completed_batches,
                     !.completed_flashcards = agg.completed_flashcards]
           r == ParallelResult(st)
       IN  ops' = [ops EXCEPT ![o] =
                      IF ~NeedsFallback(r)
                      THEN [@ EXCEPT !.pc = "done", !.result = r,
                                     !.batches = agg.completed_batches,
                                     !.final = [returned |-> TRUE,
                                                success |-> TRUE,
                                                via |-> "parallel",
                                                flashcards |-> r.flashcards]]
                      ELSE [@ EXCEPT !.pc = "fallback", !.result = r,
                                     !.batches = agg.completed_batches,
                                     !.tracker = FinalizeAgents(@, "processing",
                                                                10)]]
    /\ UNCHANGED <<store, singleVars, semVars>>

(* ai_service.py:457-471 *)
PairFallbackReturn(o, outcome) ==
    /\ ops[o].pc = "fallback"
    /\ ops' = [ops EXCEPT ![o] =
                  [@ EXCEPT !.pc = "done",
                            !.tracker = FinalizeAgents(@,
                                            IF outcome = "success"
                                            THEN "completed" ELSE "error", 100),
                            !.final = [returned |-> TRUE,
                                       success |-> (outcome = "success"),
                                       via |-> IF outcome = "raise"
                                               THEN "exception" ELSE "fallback",
                                       flashcards |-> << >>]]]
    /\ UNCHANGED <<store, singleVars, semVars>>

InitPair ==
    /\ hasGenerator = TRUE
    /\ configured = TRUE
    /\ max_agents = DefaultMaxAgents
    /\ pc = "pair"
    /\ request_count = 0
    /\ tracker = NoTracker
    /\ progress_store = {}
    /\ state = NoState
    /\ tasks = << >>
    /\ responses = << >>
    /\ doneOrder = << >>
    /\ genResult = NoResult
    /\ finalResult = NoFinal
    /\ providerCalls = 0
    /\ cbCalls = 0
    /\ lastCall = NoCall
    /\ streams = [s \in StreamIds |-> NoStream]
    /\ emitted = NoEvents
    /\ workerCalls = << >>
    /\ singleAgentCalls = 0
    /\ everTerminal = {}
    /\ statusLog = << >>
    /\ ops = [o \in Ops |-> NoOp]
    /\ store = << >>
    /\ semaphore = NoSemaphore
    /\ apiCalls = << >>

NextPair ==
    \/ \E o \in Ops : \E count \in 1..MaxPairCount : PairStart(o, count)
    \/ \E o \in Ops : PairPlan(o)
    \/ \E o \in Ops : \E i \in 1..DefaultMaxAgents : PairWorkerStart(o, i)
    \/ \E o \in Ops : \E i \in 1..DefaultMaxAgents : \E answer \in PairAnswers :
           PairWorkerFinish(o, i, answer)
    \/ \E o \in Ops : PairAggregate(o)
    \/ \E o \in Ops : \E outcome \in FallbackOutcomes :
           PairFallbackReturn(o, outcome)

SpecPair == InitPair /\ [][NextPair]_vars

-----------------------------------------------------------------------------
(* SpecStreamPair: one operation observed by two progress streams, each    *)
(* a call of stream_progress with the same operation_id                    *)

StreamPair == {"s1", "s2"}

InitStreamPair ==
    /\ \E env \in Environments : hasGenerator = env[1] /\ configured = env[2]
    /\ max_agents = DefaultMaxAgents
    /\ pc = "idle"
    /\ request_count = 0
    /\ tracker = NoTracker
    /\ progress_store = {}
    /\ state = NoState
    /\ tasks = << >>
    /\ responses = << >>
    /\ doneOrder = << >>
    /\ genResult = NoResult
    /\ finalResult = NoFinal
    /\ providerCalls = 0
    /\ cbCalls = 0
    /\ lastCall = NoCall
    /\ streams = [s \in StreamPair |-> NoStream]
    /\ emitted = NoEvents
    /\ workerCalls = << >>
    /\ singleAgentCalls = 0
    /\ everTerminal = {}
    /\ statusLog = << >>
    /\ ops = << >>
    /\ store = << >>
    /\ semaphore = NoSemaphore
    /\ apiCalls = << >>

NextStreamPair ==
    \/ \E count \in 1..MaxObservedCount : StartGeneration(count)
    \/ OperationStep
    \/ \E s \in StreamPair : StreamConnect(s)
    \/ \E s \in StreamPair : StreamStep(s)

SpecStreamPair == InitStreamPair /\ [][NextStreamPair]_vars

-----------------------------------------------------------------------------
(* SpecSem: create_chat_completion called by the workers of all running    *)
(* operations.  The client is configured; OPENAI_CONCURRENCY_LIMIT is any  *)
(* integer of the environment.                                             *)

Callers == 1..MaxCallers

Limits == -1..MaxLimit

(* openai_utils.py:23: asyncio.Semaphore(max(1, OPENAI_CONCURRENCY_LIMIT)) *)
Capacity(limit) == Max(1, limit)

(* the permit is kept when the call fails *)
Releases_OnlyOnSuccess(outcome) == outcome = "ok"

(* openai_utils.py:46: async with releases the semaphore however the body  *)
(* ends                                                                    *)
Releases(outcome) == TRUE

InFlight == {c \in DOMAIN apiCalls : apiCalls[c] = "in_flight"}
Waiting == {c \in DOMAIN apiCalls : apiCalls[c] = "waiting"}

(* asyncio.Semaphore.locked: no permit left, or a caller already waits *)
Locked == semaphore.value = 0 \/ Waiting # {}

(* openai_utils.py:38-46: the call enters async with; acquire returns at   *)
(* once unless the semaphore is locked                                     *)
SemCall(c) ==
    /\ pc = "semaphore"
    /\ apiCalls[c] \in {"idle", "returned", "raised"}
    /\ IF Locked
       THEN /\ apiCalls' = [apiCalls EXCEPT ![c] = "waiting"]
            /\ UNCHANGED semaphore
       ELSE /\ apiCalls' = [apiCalls EXCEPT ![c] = "in_flight"]
            /\ semaphore' = [semaphore EXCEPT !.value = @ - 1]
    /\ UNCHANGED <<singleVars, pairVars>>

(* asyncio.Semaphore.acquire: a waiting caller is woken after a release    *)
(* and takes the permit                                                    *)
SemWake(c) ==
    /\ pc = "semaphore"
    /\ apiCalls[c] = "waiting"
    /\ semaphore.value > 0
    /\ apiCalls' = [apiCalls EXCEPT ![c] = "in_flight"]
    /\ semaphore' = [semaphore EXCEPT !.value = @ - 1]
    /\ UNCHANGED <<singleVars, pairVars>>

(* openai_utils.py:46-50: the provider call ends, by a response or by an   *)
(* exception, and the async with block is left                             *)
SemReturn(c, outcome) ==
    /\ pc = "semaphore"
    /\ apiCalls[c] = "in_flight"
    /\ apiCalls' = [apiCalls EXCEPT ![c] =
                       IF outcome = "ok" THEN "returned" ELSE "raised"]
    /\ semaphore' = IF Releases(outcome)
                    THEN [semaphore EXCEPT !.value = @ + 1]
                    ELSE semaphore
    /\ UNCHANGED <<singleVars, pairVars>>

InitSem ==
    /\ hasGenerator = TRUE
    /\ configured = TRUE
    /\ max_agents = DefaultMaxAgents
    /\ pc = "semaphore"
    /\ request_count = 0
    /\ tracker = NoTracker
    /\ progress_store = {}
    /\ state = NoState
    /\ tasks = << >>
    /\ responses = << >>
    /\ doneOrder = << >>
    /\ genResult = NoResult
    /\ finalResult = NoFinal
    /\ providerCalls = 0
    /\ cbCalls = 0
    /\ lastCall = NoCall
    /\ streams = [s \in StreamIds |-> NoStream]
    /\ emitted = NoEvents
    /\ workerCalls = << >>
    /\ singleAgentCalls = 0
    /\ everTerminal = {}
    /\ statusLog = << >>
    /\ ops = << >>
    /\ store = << >>
    /\ \E limit \in Limits :
           semaphore = [limit |-> limit, value |-> Capacity(limit)]
    /\ apiCalls = [c \in Callers |-> "idle"]

NextSem ==
    \/ \E c \in Callers : SemCall(c)
    \/ \E c \in Callers : SemWake(c)
    \/ \E c \in Callers : \E outcome \in {"ok", "fail"} : SemReturn(c, outcome)

SpecSem == InitSem /\ [][NextSem]_vars

-----------------------------------------------------------------------------
(* SpecPlan: the planner alone, over every total_count and max_agents of   *)
(* the bounds                                                              *)

InitPlan ==
    /\ hasGenerator = TRUE
    /\ configured = TRUE
    /\ max_agents \in 1..MaxPool
    /\ request_count \in 1..MaxPlanCount
    /\ pc = "plan_input"
    /\ tracker = NoTracker
    /\ progress_store = {}
    /\ state = NewState(request_count)
    /\ tasks = << >>
    /\ responses = << >>
    /\ doneOrder = << >>
    /\ genResult = NoResult
    /\ finalResult = NoFinal
    /\ providerCalls = 0
    /\ cbCalls = 0
    /\ lastCall = NoCall
    /\ streams = [s \in StreamIds |-> NoStream]
    /\ emitted = NoEvents
    /\ workerCalls = << >>
    /\ singleAgentCalls = 0
    /\ everTerminal = {}
    /\ statusLog = << >>
    /\ ops = << >>
    /\ store = << >>
    /\ semaphore = NoSemaphore
    /\ apiCalls = << >>

(* _create_batches, lines 204-229 *)
PlanOnly(provided) ==
    /\ pc = "plan_input"
    /\ state' = [state EXCEPT
                    !.batches = CreateBatches(max_agents, state.total_count, provided),
                    !.agents_count = AgentsToUse(max_agents, state.total_count)]
    /\ pc' = "planned"
    /\ UNCHANGED <<pairVars, semVars, statusLog,
                   configured, hasGenerator, max_agents, request_count, tracker,
                   progress_store, tasks, responses, doneOrder, genResult,
                   finalResult, providerCalls, cbCalls, lastCall,
                   streams, emitted, workerCalls, singleAgentCalls,
                   everTerminal>>

NextPlan == \E provided \in 0..MaxProvided : PlanOnly(provided)

SpecPlan == InitPlan /\ [][NextPlan]_vars

-----------------------------------------------------------------------------
(* SpecTracker: any sequence of calls on one ProgressTracker *)

ReportedStatuses == {"queued", "processing", "completed", "error"}

ProgressOf(status) ==
    IF status \in Terminal THEN 100 ELSE IF status = "processing" THEN 5 ELSE 0

InitTracker ==
    /\ hasGenerator = TRUE
    /\ configured = TRUE
    /\ max_agents = DefaultMaxAgents
    /\ request_count = 0
    /\ pc = "tracker_api"
    /\ \E total \in 0..MaxTrackerAgents : tracker = NewTracker(total)
    /\ progress_store = {OpId}
    /\ state = NoState
    /\ tasks = << >>
    /\ responses = << >>
    /\ doneOrder = << >>
    /\ genResult = NoResult
    /\ finalResult = NoFinal
    /\ providerCalls = 0
    /\ cbCalls = 0
    /\ lastCall = NoCall
    /\ streams = [s \in StreamIds |-> NoStream]
    /\ emitted = NoEvents
    /\ workerCalls = << >>
    /\ singleAgentCalls = 0
    /\ everTerminal = {}
    /\ statusLog = << >>
    /\ ops = << >>
    /\ store = << >>
    /\ semaphore = NoSemaphore
    /\ apiCalls = << >>

CallSetTotalAgents(total) ==
    /\ pc = "tracker_api"
    /\ tracker' = SetTotalAgents(tracker, total)
    /\ lastCall' = [op |-> "set_total_agents", arg |-> total,
                    status |-> "none", previous |-> "none"]
    /\ UNCHANGED <<pairVars, semVars, statusLog,
                   configured, hasGenerator, max_agents, pc, request_count,
                   progress_store, state, tasks, responses, doneOrder,
                   genResult, finalResult, providerCalls, cbCalls,
                   streams, emitted, workerCalls, singleAgentCalls,
                   everTerminal>>

CallUpdateAgentStatus(agent_id, status) ==
    /\ pc = "tracker_api"
    /\ tracker' = UpdateAgentStatus(tracker, agent_id, status, "topic",
                                    ProgressOf(status))
    /\ lastCall' = [op |-> "update_agent_status", arg |-> agent_id,
                    status |-> status,
                    previous |-> IF agent_id \in DOMAIN tracker.agents_status
                                 THEN tracker.agents_status[agent_id].status
                                 ELSE "waiting"]
    /\ everTerminal' = IF status \in Terminal
                       THEN everTerminal \cup {agent_id} ELSE everTerminal
    /\ UNCHANGED <<pairVars, semVars, statusLog,
                   configured, hasGenerator, max_agents, pc, request_count,
                   progress_store, state, tasks, responses, doneOrder,
                   genResult, finalResult, providerCalls, cbCalls,
                   streams, emitted, workerCalls, singleAgentCalls>>

NextTracker ==
    \/ \E total \in 0..MaxTrackerAgents : CallSetTotalAgents(total)
    \/ \E agent_id \in 1..MaxTrackerAgents : \E status \in ReportedStatuses :
           CallUpdateAgentStatus(agent_id, status)

SpecTracker == InitTracker /\ [][NextTracker]_vars

-----------------------------------------------------------------------------
(* Properties *)

RECURSIVE SumCounts(_)
SumCounts(batches) ==
    IF batches = << >> THEN 0
    ELSE Head(batches).count + SumCounts(Tail(batches))

BatchCounts == [i \in DOMAIN state.batches |-> state.batches[i].count]

(* C1 (SpecPlan): for every total_count > 0 and max_agents >= 1 the item   *)
(* counts of the planned batches sum to total_count, and there are at most *)
(* min(max_agents, total_count) batches.                                   *)
C1_PlanSumsToTotal ==
    pc = "planned" =>
        /\ SumCounts(state.batches) = request_count
        /\ Len(state.batches) <= Min(max_agents, request_count)

C1_Witness ==
    /\ pc = "planned"
    /\ request_count > max_agents
    /\ request_count % max_agents # 0
    /\ Len(state.batches) = max_agents
    /\ SumCounts(state.batches) = request_count

(* C2 (SpecPlan): with workersUsed = max(1, min(max_agents, total_count)),  *)
(* base = total_count div workersUsed and remainder = total_count mod       *)
(* workersUsed, batch i (by agent_id) holds base+1 items when               *)
(* i <= remainder and base items otherwise; the counts differ by at most 1; *)
(* 10 items over 4 agents give 3,3,2,2.                                     *)
C2_PlanBalanced ==
    pc = "planned" =>
        LET workersUsed == IF request_count < max_agents
                           THEN request_count ELSE max_agents
            base == request_count \div workersUsed
            remainder == request_count % workersUsed
        IN  /\ Len(state.batches) = workersUsed
            /\ \A i \in DOMAIN state.batches :
                   /\ state.batches[i].agent_id = i
                   /\ state.batches[i].count =
                          IF i <= remainder THEN base + 1 ELSE base
            /\ \A i, j \in DOMAIN state.batches :
                   state.batches[i].count - state.batches[j].count <= 1
            /\ (request_count = 10 /\ max_agents = 4)
                   => BatchCounts = <<3, 3, 2, 2>>

C2_Witness ==
    /\ pc = "planned"
    /\ request_count = 10
    /\ max_agents = 4
    /\ BatchCounts = <<3, 3, 2, 2>>

(* Generate went through planning, the workers and the aggregation *)
Aggregated == genResult.kind \in {"ok", "total_failure"}

FailedWorkers == {i \in DOMAIN responses : FailedAnswer(responses[i])}

ErrorBatches == {i \in DOMAIN state.batches : state.batches[i].status = "error"}
CompletedBatches ==
    {i \in DOMAIN state.batches : state.batches[i].status = "completed"}

(* the flashcards worker i made of the provider's answer *)
ItemsOfWorker(i) ==
    IF FailedAnswer(responses[i]) THEN << >>
    ELSE [k \in 1..responses[i].n |->
             [id |-> <<i, k>>, batch_id |-> i, agent_id |-> i]]

RECURSIVE ItemsUpTo(_)
ItemsUpTo(n) == IF n = 0 THEN << >> ELSE ItemsUpTo(n - 1) \o ItemsOfWorker(n)

(* C3 (Spec): the aggregated flashcards come in ascending agent_id of the  *)
(* batches that produced them, whatever the order in which the worker      *)
(* tasks finished.                                                         *)
C3_AggregatedInWorkerOrder ==
    Aggregated =>
        /\ \A i, j \in DOMAIN state.completed_flashcards :
               i < j => state.completed_flashcards[i].agent_id
                            <= state.completed_flashcards[j].agent_id
        /\ genResult.success => genResult.flashcards = ItemsUpTo(Len(responses))

(* the last worker finished first and the first worker last, both with items *)
C3_Witness ==
    /\ genResult.kind = "ok"
    /\ Len(doneOrder) >= 3
    /\ doneOrder[1] = Len(state.batches)
    /\ doneOrder[Len(doneOrder)] = 1
    /\ genResult.flashcards[1].agent_id = 1
    /\ genResult.flashcards[Len(genResult.flashcards)].agent_id = Len(state.batches)

(* C4 (Spec): when exactly one worker fails and the others succeed,        *)
(* Generate aggregates the flashcards of all the others, one batch is      *)
(* failed and all the others are successful, and the result reports it.    *)
C4_OneFailureIsIsolated ==
    (Aggregated /\ Cardinality(FailedWorkers) = 1) =>
        /\ state.completed_flashcards = ItemsUpTo(Len(responses))
        /\ Cardinality(ErrorBatches) = 1
        /\ Cardinality(CompletedBatches) = Len(state.batches) - 1
        /\ ItemsUpTo(Len(responses)) # << >> =>
               /\ genResult.success
               /\ genResult.flashcards = ItemsUpTo(Len(responses))
               /\ genResult.batches_failed = 1
               /\ genResult.batches_completed = Len(state.batches) - 1
        /\ ItemsUpTo(Len(responses)) = << >> =>
               /\ ~genResult.success
               /\ genResult.failed_batches = 1

C4_Witness ==
    /\ Aggregated
    /\ Cardinality(FailedWorkers) = 1
    /\ Len(state.batches) >= 3
    /\ genResult.success
    /\ genResult.batches_failed = 1
    /\ Len(genResult.flashcards) >= 3

(* C5 (Spec): when every worker fails, Generate returns success:false and  *)
(* no flashcard is aggregated.                                             *)
C5_AllFailedIsFailure ==
    (pc \in {"fallback", "done"} /\ responses # << >>
         /\ FailedWorkers = DOMAIN responses) =>
        /\ genResult.success = FALSE
        /\ genResult.kind = "total_failure"
        /\ genResult.flashcards = << >>
        /\ state.completed_flashcards = << >>

C5_Witness ==
    /\ pc \in {"fallback", "done"}
    /\ Len(responses) >= 2
    /\ FailedWorkers = DOMAIN responses
    /\ genResult.kind = "total_failure"
    /\ genResult.failed_batches = Len(responses)

(* C6 (Spec): once the batches were planned and all workers awaited,       *)
(* Generate returns success:true exactly when some flashcard was           *)
(* aggregated, also when batches failed, and every aggregated flashcard    *)
(* comes from a batch whose status is completed.                           *)
C6_SuccessIffItems ==
    (pc \in {"fallback", "done"} /\ tasks # << >>) =>
        /\ genResult.success <=> state.completed_flashcards # << >>
        /\ genResult.success => genResult.flashcards = state.completed_flashcards
        /\ \A k \in DOMAIN state.completed_flashcards :
               \E i \in DOMAIN state.batches :
                   /\ state.batches[i].batch_id
                          = state.completed_flashcards[k].batch_id
                   /\ state.batches[i].status = "completed"

(* a partial result: success although two batches failed *)
C6_Witness ==
    /\ pc = "done"
    /\ genResult.success
    /\ Cardinality(ErrorBatches) >= 2
    /\ state.completed_flashcards # << >>

(* C7 (SpecTracker): completed_agents never exceeds total_agents, after    *)
(* any sequence of update_agent_status and set_total_agents calls.         *)
C7_CompletedWithinTotal ==
    tracker.completed_agents <= tracker.total_agents

(* C8 (SpecTracker): update_agent_status with a terminal status, for an    *)
(* agent whose record is already terminal, leaves completed_agents as it   *)
(* was.                                                                    *)
C8_TerminalReportIdempotent ==
    [][(/\ lastCall'.op = "update_agent_status"
        /\ lastCall'.status \in Terminal
        /\ lastCall'.previous \in Terminal)
          => tracker'.completed_agents = tracker.completed_agents]_vars

(* a terminal status reported again while the counter is below the total,  *)
(* so that the clamp to total_agents is not what held the counter          *)
C8_Witness ==
    /\ lastCall.op = "update_agent_status"
    /\ lastCall.status \in Terminal
    /\ lastCall.previous \in Terminal
    /\ tracker.completed_agents < tracker.total_agents

(* C9 (Spec): when count <= 0 or the provider is not configured, Generate  *)
(* returns success:false at once: no batch is planned, no worker task is   *)
(* created, the provider is not called and no progress callback is made.   *)
C9_RejectedWithoutWork ==
    (pc # "idle" /\ hasGenerator /\ (~configured \/ request_count <= 0)) =>
        /\ genResult.success = FALSE
        /\ genResult.kind \in {"unavailable", "nonpositive"}
        /\ state = NoState
        /\ tasks = << >>
        /\ providerCalls = 0
        /\ cbCalls = 0

C9_Witness ==
    /\ configured
    /\ request_count = 0
    /\ pc \in {"fallback", "done"}
    /\ genResult.kind = "nonpositive"

C11_TimeoutIsSingleAndLast ==
    \A s \in StreamIds :
        LET st == streams[s] IN
        /\ (st.pc = "ended" /\ ~st.found) =>
               /\ st.nTimeout = 1
               /\ st.wait_count = MaxWait
               /\ st.nTerminal = 0 /\ st.nError = 0 /\ ~st.anySnapshot
        /\ st.nTimeout > 0 =>
               /\ st.nTimeout = 1
               /\ st.pc = "ended"
               /\ st.last = "timeout"
        /\ (st.pc \in {"connected", "waiting"}) => st.nTimeout = 0

C11_Witness ==
    \E s \in StreamIds :
        /\ streams[s].pc = "ended"
        /\ streams[s].last = "timeout"
        /\ streams[s].wait_count = MaxWait
        /\ streams[s].nConnected = 1

(* C12 (SpecStream): a stream that found its operation and has ended has   *)
(* yielded exactly one terminal snapshot, as its last event and without an *)
(* error event, and the operation's entry is gone from progress_store only *)
(* after a terminal snapshot was yielded                                   *)
C12_FoundStreamEndsWithTerminal ==
    /\ \A s \in StreamIds :
           (streams[s].pc = "ended" /\ streams[s].found) =>
               /\ streams[s].nTerminal = 1
               /\ streams[s].last = "completed"
               /\ streams[s].nError = 0
    /\ (pc # "idle" /\ OpId \notin progress_store) =>
           \E s \in StreamIds : streams[s].nTerminal = 1

(* C13 (SpecStreamFair): an entry of progress_store is eventually removed, *)
(* whether or not a stream is ever opened for its operation                *)
C13_EntryEventuallyRemoved ==
    (OpId \in progress_store) ~> (OpId \notin progress_store)

RaisedTasks == {i \in DOMAIN tasks : tasks[i] = "raised"}

(* C15 (SpecCb): generate_flashcards_batch never raises, whatever the      *)
(* provider gave and whatever the progress callback does: no task ends     *)
(* with an exception                                                       *)
C15_WorkerNeverRaises == RaisedTasks = {}

RECURSIVE ItemsOfCompleted(_)
ItemsOfCompleted(batches) ==
    IF batches = << >> THEN << >>
    ELSE (IF Head(batches).status = "completed"
          THEN Head(batches).flashcards ELSE << >>)
         \o ItemsOfCompleted(Tail(batches))

(* C16 (SpecCb): when a task ended with an exception and Generate has      *)
(* returned, its result is the aggregation: the batch of that task is in   *)
(* state.batches with status error and counted as failed, every task ran   *)
(* to its end, and the items of the completed batches are in the result    *)
C16_TaskFaultIsContained ==
    (genResult.kind # "none" /\ RaisedTasks # {}) =>
        /\ Aggregated
        /\ \A i \in DOMAIN tasks : tasks[i] \in {"done", "raised"}
        /\ \A i \in RaisedTasks : state.batches[i].status = "error"
        /\ state.completed_flashcards = ItemsOfCompleted(state.batches)
        /\ genResult.success =>
               /\ genResult.flashcards = ItemsOfCompleted(state.batches)
               /\ genResult.batches_failed >= Cardinality(RaisedTasks)
        /\ ~genResult.success =>
               genResult.failed_batches >= Cardinality(RaisedTasks)

(* C17 (Spec): the caller calls the single-agent fallback exactly once     *)
(* when Generate returned success false and what it then returns comes     *)
(* from the fallback; when Generate returned success true the fallback is  *)
(* not called and the parallel result is returned; while Generate runs it  *)
(* does not call the fallback                                              *)
C17_FallbackOnceIffParallelFailed ==
    hasGenerator =>
        /\ (pc \in {"create_batches", "gather"}) =>
               genResult.kind = "none" /\ singleAgentCalls = 0
        /\ (genResult.kind # "none" /\ genResult.success) =>
               /\ singleAgentCalls = 0
               /\ pc = "done"
               /\ finalResult.returned
               /\ finalResult.via = "parallel"
               /\ finalResult.success
               /\ finalResult.flashcards = genResult.flashcards
        /\ (genResult.kind # "none" /\ ~genResult.success) =>
               /\ singleAgentCalls = 1
               /\ pc \in {"fallback", "done"}
               /\ (pc = "fallback") = ~finalResult.returned
               /\ finalResult.returned =>
                      finalResult.via \in {"fallback", "exception"}

C17_Witness ==
    /\ hasGenerator
    /\ genResult.kind = "total_failure"
    /\ singleAgentCalls = 1
    /\ finalResult.returned
    /\ finalResult.via = "fallback"
    /\ finalResult.success

(* C18 (SpecTracker): whatever the calls of update_agent_status and        *)
(* set_total_agents, completed_agents counts an agent at most once: it     *)
(* never exceeds the number of agents that ever had a terminal status,     *)
(* also when an agent went back to a non-terminal status in between        *)
C18_CountedOncePerAgent ==
    tracker.completed_agents <= Cardinality(everTerminal)

(* the events a worker reports, in their order *)
WorkerEvents ==
    {<< >>,
     <<[status |-> "queued", progress |-> 0]>>,
     <<[status |-> "queued", progress |-> 0],
       [status |-> "processing", progress |-> 5]>>}
    \cup {<<[status |-> "queued", progress |-> 0],
            [status |-> "processing", progress |-> 5],
            [status |-> st, progress |-> 100]>> : st \in Terminal}

(* C19 (Spec): every planned batch is reported queued (progress 0) before  *)
(* any task starts, and each agent's events then are processing (5) and    *)
(* exactly one terminal event (100), in this order                         *)
C19_QueuedThenProcessingThenTerminal ==
    /\ \A a \in DOMAIN emitted : emitted[a] \in WorkerEvents
    /\ \A i \in DOMAIN tasks :
           LET log == emitted[state.batches[i].agent_id] IN
           /\ Len(log) >= 1
           /\ tasks[i] = "created" => Len(log) = 1
           /\ tasks[i] = "awaiting" => Len(log) = 2
           /\ tasks[i] = "done" =>
                  /\ Len(log) = 3
                  /\ log[3].status = state.batches[i].status
    /\ \A a \in DOMAIN emitted :
           emitted[a] # << >> =>
               \E i \in DOMAIN tasks : state.batches[i].agent_id = a

C19_Witness ==
    /\ Len(tasks) >= 2
    /\ tasks[1] = "done" /\ Len(emitted[1]) = 3
    /\ emitted[1][3].status = "error"
    /\ tasks[2] = "created" /\ Len(emitted[2]) = 1

(* C20 (Spec): the agent_id values of the planned batches are distinct,    *)
(* each batch is run by the agent whose id is the batch's agent_id, which  *)
(* calls the provider once for it, also when the call failed, and the      *)
(* items of a batch carry that agent's id                                  *)
C20_OneAgentOneCallPerBatch ==
    /\ \A i, j \in DOMAIN state.batches :
           state.batches[i].agent_id = state.batches[j].agent_id => i = j
    /\ \A i \in DOMAIN tasks :
           /\ tasks[i] = "created" => workerCalls[i].calls = 0
           /\ tasks[i] \in {"awaiting", "done"} =>
                  /\ workerCalls[i].agent = state.batches[i].agent_id
                  /\ workerCalls[i].calls = 1
           /\ \A k \in DOMAIN state.batches[i].flashcards :
                  state.batches[i].flashcards[k].agent_id
                      = state.batches[i].agent_id
    /\ tasks # << >> =>
           providerCalls =
               1 + Cardinality({i \in DOMAIN tasks : tasks[i] # "created"})

C20_Witness ==
    /\ pc = "done"
    /\ Len(tasks) >= 2
    /\ workerCalls[2] = [agent |-> 2, calls |-> 1]
    /\ responses[2].kind = "provider_error"
    /\ state.batches[2].status = "error"
    /\ state.batches[1].flashcards # << >>

(* pending, processing, completed | error: how far a status is *)
StatusRank(status) ==
    IF status = "pending" THEN 0
    ELSE IF status = "processing" THEN 1
    ELSE 2

(* C21 (SpecCb): the values assigned to a batch's status only move forward *)
(* along pending, processing, completed or error, and after completed or   *)
(* error no other value is assigned, by the worker or by the orchestrator  *)
C21_BatchStatusOnlyForward ==
    \A i \in DOMAIN statusLog :
        \A k \in 1..(Len(statusLog[i]) - 1) :
            /\ StatusRank(statusLog[i][k]) <= StatusRank(statusLog[i][k + 1])
            /\ statusLog[i][k] \in Terminal =>
                   statusLog[i][k + 1] = statusLog[i][k]

(* C22 (Spec): state.status is processing while the batches are planned    *)
(* and the workers run, after the aggregation it is completed exactly when *)
(* an item was aggregated and error otherwise, and it is error when the    *)
(* planner gave no batch                                                   *)
C22_OperationStatusLifecycle ==
    /\ (pc \in {"create_batches", "gather"}) => state.status = "processing"
    /\ Aggregated =>
           state.status = (IF state.completed_flashcards # << >>
                           THEN "completed" ELSE "error")
    /\ genResult.kind = "noplan" => state.status = "error"

DoneTasks == {i \in DOMAIN tasks : tasks[i] = "done"}

(* C24 (Spec): while the tasks of an operation run, in whatever order they *)
(* report their terminal status, completed_agents is the number of tasks   *)
(* that reported it: two reports raise it by exactly 2, none is lost       *)
C24_NoLostTerminalReport ==
    pc = "gather" =>
        /\ tracker.completed_agents = Cardinality(DoneTasks)
        /\ tracker.completed_agents = Len(doneOrder)
        /\ \A i \in DoneTasks :
               tracker.agents_status[state.batches[i].agent_id].status
                   = state.batches[i].status

C24_Witness ==
    /\ pc = "gather"
    /\ Len(tasks) >= 3
    /\ doneOrder = <<2, 1>>
    /\ tracker.completed_agents = 2
    /\ tracker.total_agents = Len(tasks)

RECURSIVE ItemsAnswered(_)
ItemsAnswered(answers) ==
    IF answers = << >> THEN 0
    ELSE (IF FailedAnswer(Head(answers)) THEN 0 ELSE Head(answers).n)
         + ItemsAnswered(Tail(answers))

(* C25 (SpecPair): of two operations that run concurrently, each keeps its *)
(* own entry of progress_store, its tracker counts its own tasks only, its *)
(* batches follow from its own workers' answers and its result holds the   *)
(* items of its own batches, whatever the other operation does             *)
C25_OperationsIndependent ==
    \A o \in Ops :
        LET op == ops[o] IN
        op.pc # "idle" =>
            /\ OperationKey(o) \in DOMAIN store
            /\ store[OperationKey(o)] = o
            /\ op.tracker.total_agents = EstimateBatches(max_agents, op.count)
            /\ op.pc = "gather" =>
                   op.tracker.completed_agents =
                       Cardinality({i \in DOMAIN op.tasks : op.tasks[i] = "done"})
            /\ \A i \in DOMAIN op.tasks :
                   op.tasks[i] = "done" =>
                       op.batches[i].status =
                           (IF FailedAnswer(op.responses[i])
                            THEN "error" ELSE "completed")
            /\ op.pc \in {"fallback", "done"} =>
                   /\ op.result.success = (ItemsAnswered(op.responses) > 0)
                   /\ Len(op.result.flashcards) = ItemsAnswered(op.responses)

C25_Witness ==
    /\ ops["a"].pc = "done"
    /\ ops["a"].final.via = "fallback"
    /\ ops["a"].result.failed_batches = 2
    /\ ops["b"].pc = "gather"
    /\ ops["b"].tasks = <<"done", "awaiting">>
    /\ ops["b"].batches[1].status = "completed"
    /\ ops["b"].tracker.completed_agents = 1
    /\ DOMAIN store = {"a", "b"}

(* C26 (Spec): whenever the tracker's snapshot has status "completed",     *)
(* that is completed_agents = total_agents, every agent record 1 to        *)
(* total_agents has status completed or error, also while the caller runs  *)
(* the single-agent fallback                                               *)
C26_CompletedSnapshotAllTerminal ==
    (pc # "idle" /\ OverallStatus(tracker) = "completed") =>
        \A i \in 1..tracker.total_agents :
            /\ i \in DOMAIN tracker.agents_status
            /\ tracker.agents_status[i].status \in Terminal

(* C27 (SpecStreamFair): once start_flashcard_generation has returned a    *)
(* result, a stream attached to the operation eventually yields its        *)
(* terminal event and ends                                                 *)
C27_ReturnedThenStreamTerminal ==
    \A s \in StreamIds :
        (finalResult.returned /\ streams[s].found)
            ~> (streams[s].pc = "ended" /\ streams[s].nTerminal = 1)

(* C28 (Spec): when Generate returns the total-failure result, no batch is *)
(* completed: failed_batches is the number of planned batches              *)
C28_TotalFailureAllBatchesFailed ==
    genResult.kind = "total_failure" =>
        /\ CompletedBatches = {}
        /\ genResult.failed_batches = Len(state.batches)

(* C29 (SpecStreamPair): of two streams on one operation, each one that    *)
(* found the entry ends after exactly one terminal event and no error      *)
(* event, whichever removed the entry, and one that did not find the entry *)
(* ends after a timeout event                                              *)
C29_BothStreamsFinish ==
    \A s \in DOMAIN streams :
        streams[s].pc = "ended" =>
            IF streams[s].found
            THEN streams[s].nTerminal = 1 /\ streams[s].nError = 0
            ELSE streams[s].nTimeout = 1 /\ streams[s].nError = 0

(* C30 (SpecSem): the calls in flight inside create_chat_completion never  *)
(* exceed max(1, OPENAI_CONCURRENCY_LIMIT), and every permit taken is      *)
(* either held by a call in flight or back in the semaphore, also after    *)
(* calls that failed                                                       *)
C30_InFlightWithinLimit ==
    pc = "semaphore" =>
        /\ Cardinality(InFlight) <= Capacity(semaphore.limit)
        /\ semaphore.value >= 0
        /\ semaphore.value + Cardinality(InFlight) = Capacity(semaphore.limit)

C30_Witness ==
    /\ pc = "semaphore"
    /\ semaphore.limit = 0
    /\ apiCalls[1] = "raised"
    /\ apiCalls[2] = "in_flight"
    /\ apiCalls[3] = "waiting"
    /\ semaphore.value = 0
=============================================================================
